---- MODULE Spec2Model ----
(***************************************************************************)
(* Model of wire_calculator_app.py: a Streamlit script that parses product *)
(* specs from text, aggregates run lengths, suggests a wire gauge per run  *)
(* from a voltage-drop bound and builds a greedy packaging plan.           *)
(*                                                                         *)
(* Text is a sequence of one-character strings.  Numbers are exact:        *)
(*   lengths         half-feet            (hf  = 2 * ft)                   *)
(*   total footage   1/200 ft             (hf * (100 + waste_pct))         *)
(*   current         half-amps            (the widget's step is 0.5)       *)
(*   max drop        half-percent         (the widget's step is 0.5)       *)
(*   resistance      1e-4 ohm per 1000 ft                                  *)
(*   voltage drop    1/(2e7) V            (half-amps * R * half-feet)      *)
(* The float arithmetic of the source is modelled by exact arithmetic on   *)
(* these scaled integers.                                                  *)
(***************************************************************************)
EXTENDS Integers, Sequences, FiniteSets, TLC

\* Optional numbers are tagged tuples, so that a number, Python's None and the
\* float NaN can be told apart; strings use NoneStr for None, and the empty
\* text <<>> is the empty string.
None == <<"None">>
NaN == <<"NaN">>
Num(v) == <<"num", v>>
IsNum(c) == c[1] = "num"
Val(c) == c[2]
NoneStr == "None"

\* ------------------------------------------------------------------ text

Alpha == <<"a","b","c","d","e","f","g","h","i","j","k","l","m",
           "n","o","p","q","r","s","t","u","v","w","x","y","z">>
AlphaUp == <<"A","B","C","D","E","F","G","H","I","J","K","L","M",
             "N","O","P","Q","R","S","T","U","V","W","X","Y","Z">>
DigitChars == <<"0","1","2","3","4","5","6","7","8","9">>

Range(f) == {f[i] : i \in DOMAIN f}

Digits == Range(DigitChars)
Letters == Range(Alpha) \cup Range(AlphaUp)
WordChars == Letters \cup Digits \cup {"_"}
Whitespace == {" ", "\t", "\n"}

IsDigit(c) == c \in Digits
IsSpace(c) == c \in Whitespace
IsWordChar(c) == c \in WordChars

\* re.I: compare characters with case folded
LowerOf == [c \in Range(AlphaUp) |-> Alpha[CHOOSE i \in DOMAIN AlphaUp : AlphaUp[i] = c]]
Lower(c) == IF c \in DOMAIN LowerOf THEN LowerOf[c] ELSE c

DigitOf == [c \in Digits |-> (CHOOSE i \in DOMAIN DigitChars : DigitChars[i] = c) - 1]
DigitVal(c) == DigitOf[c]

\* int() of a run of digits text[from .. from + n - 1]
RECURSIVE DigitsValue(_, _, _)
DigitsValue(text, from, n) ==
  IF n = 0 THEN 0
  ELSE 10 * DigitsValue(text, from, n - 1) + DigitVal(text[from + n - 1])

AllAt(text, from, n, P(_)) ==
  /\ from + n - 1 <= Len(text)
  /\ \A k \in 0 .. n - 1 : P(text[from + k])

DigitsAt(text, from, n) == AllAt(text, from, n, IsDigit)

\* a literal of the pattern at position from, case-insensitively
LitAt(text, from, lit) ==
  /\ from + Len(lit) - 1 <= Len(text)
  /\ \A k \in 1 .. Len(lit) : Lower(text[from + k - 1]) = Lower(lit[k])

WordAt(text, i) == i >= 1 /\ i <= Len(text) /\ IsWordChar(text[i])

\* \b between positions i - 1 and i
Boundary(text, i) == WordAt(text, i - 1) # WordAt(text, i)

\* the lexicographically greatest tuple of a non-empty finite set of tuples of
\* naturals: the alternative a greedy, backtracking matcher takes first
RECURSIVE TupleGreater(_, _, _)
TupleGreater(a, b, k) ==
  IF k > Len(a) THEN FALSE
  ELSE IF a[k] # b[k] THEN a[k] > b[k]
  ELSE TupleGreater(a, b, k + 1)

Greediest(S) == CHOOSE a \in S : \A b \in S : ~TupleGreater(b, a, 1)

MinOf(S) == CHOOSE x \in S : \A y \in S : x <= y

\* str.strip(): leading and trailing whitespace removed
RECURSIVE LStrip(_)
LStrip(text) ==
  IF text # <<>> /\ IsSpace(Head(text)) THEN LStrip(Tail(text)) ELSE text

RECURSIVE RStrip(_)
RStrip(text) ==
  IF text # <<>> /\ IsSpace(text[Len(text)])
  THEN RStrip(SubSeq(text, 1, Len(text) - 1)) ELSE text

Strip(text) == RStrip(LStrip(text))

\* normalize_space: runs of whitespace become one space, ends trimmed
RECURSIVE Collapse(_)
Collapse(text) ==
  IF text = <<>> THEN <<>>
  ELSE IF IsSpace(Head(text))
       THEN <<" ">> \o Collapse(LStrip(text))
       ELSE <<Head(text)>> \o Collapse(Tail(text))

normalize_space(s) == Strip(Collapse(s))

\* number of whitespace characters from position from on
RECURSIVE SpaceRun(_, _)
SpaceRun(text, from) ==
  IF from >= 1 /\ from <= Len(text) /\ IsSpace(text[from])
  THEN 1 + SpaceRun(text, from + 1) ELSE 0

\* ------------------------------------------------------ spec extraction

\* (?:#?\s*)(\d{1,2})\s*AWG\b at start i: the ways <<#, spaces, digits, spaces>>
\* the pattern matches there
AwgAt(text, i) ==
  UNION { UNION { UNION {
    { <<h, k, n, j>> : j \in { j \in 0 .. SpaceRun(text, i + h + k + n) :
        /\ LitAt(text, i + h + k + n + j, <<"A","W","G">>)
        /\ Boundary(text, i + h + k + n + j + 3) } }
    : n \in { n \in 1 .. 2 : DigitsAt(text, i + h + k, n) } }
    : k \in 0 .. SpaceRun(text, i + h) }
    : h \in { h \in 0 .. 1 : h = 1 => LitAt(text, i, <<"#">>) } }

\* (\d{2,4})\s*(?:kcmil|MCM)\b at start i: <<digits, spaces>>
KcmilAt(text, i) ==
  UNION {
    { <<n, j>> : j \in { j \in 0 .. SpaceRun(text, i + n) :
        \/ /\ LitAt(text, i + n + j, <<"k","c","m","i","l">>)
           /\ Boundary(text, i + n + j + 5)
        \/ /\ LitAt(text, i + n + j, <<"M","C","M">>)
           /\ Boundary(text, i + n + j + 3) } }
    : n \in { n \in 2 .. 4 : DigitsAt(text, i, n) } }

\* re.search: the leftmost start with a match, and there the greediest match
parse_awg(text) ==
  LET starts == { i \in 1 .. Len(text) : AwgAt(text, i) # {} }
      starts2 == { i \in 1 .. Len(text) : KcmilAt(text, i) # {} }
  IN IF text = <<>> THEN None
     ELSE IF starts # {}
     THEN LET i == MinOf(starts)
              m == Greediest(AwgAt(text, i))
          IN Num(DigitsValue(text, i + m[1] + m[2], m[3]))
     ELSE IF starts2 # {}
     THEN LET i == MinOf(starts2)
              m == Greediest(KcmilAt(text, i))
          IN Num(DigitsValue(text, i, m[1]))
     ELSE None

\* \bword\b somewhere in the text, case-insensitively
HasWord(text, w) ==
  \E i \in 1 .. Len(text) :
    Boundary(text, i) /\ LitAt(text, i, w) /\ Boundary(text, i + Len(w))

detect_material(text) ==
  IF text = <<>> THEN NoneStr
  ELSE IF HasWord(text, <<"c","o","p","p","e","r">>) \/ HasWord(text, <<"c","u">>)
  THEN "copper"
  ELSE IF \/ HasWord(text, <<"a","l","u","m","i","n","u","m">>)
          \/ HasWord(text, <<"a","l","u","m">>)
          \/ HasWord(text, <<"a","l">>)
  THEN "aluminum"
  ELSE NoneStr

\* (\d{2,5})\s*(ft|feet|FT)\b at start i: <<digits, spaces>>
PackAt(text, i) ==
  UNION {
    { <<n, j>> : j \in { j \in 0 .. SpaceRun(text, i + n) :
        \/ /\ LitAt(text, i + n + j, <<"f","t">>)
           /\ Boundary(text, i + n + j + 2)
        \/ /\ LitAt(text, i + n + j, <<"f","e","e","t">>)
           /\ Boundary(text, i + n + j + 4) } }
    : n \in { n \in 2 .. 5 : DigitsAt(text, i, n) } }

\* two words of a phrase separated by \s+, the first at position i; the
\* position after the second word, or 0
TwoWordsEnd(text, i, w1, w2) ==
  LET s == SpaceRun(text, i + Len(w1))
  IN IF LitAt(text, i, w1) /\ s >= 1 /\ LitAt(text, i + Len(w1) + s, w2)
     THEN i + Len(w1) + s + Len(w2) ELSE 0

\* \b(per\s+foot|by\s+the\s+foot|sold\s+by\s+foot)\b
PerFootAt(text, i) ==
  LET per == <<"p","e","r">>
      by == <<"b","y">>
      the == <<"t","h","e">>
      sold == <<"s","o","l","d">>
      foot == <<"f","o","o","t">>
      e1 == TwoWordsEnd(text, i, per, foot)
      b2 == TwoWordsEnd(text, i, by, the)
      e2 == IF b2 = 0 THEN 0 ELSE TwoWordsEnd(text, b2 - Len(the), the, foot)
      b3 == TwoWordsEnd(text, i, sold, by)
      e3 == IF b3 = 0 THEN 0 ELSE TwoWordsEnd(text, b3 - Len(by), by, foot)
  IN /\ Boundary(text, i)
     /\ \E e \in {e1, e2, e3} : e # 0 /\ Boundary(text, e)

\* Returns <<length_in_ft, unit_label>>
parse_pack_length(text) ==
  LET starts == { i \in 1 .. Len(text) : PackAt(text, i) # {} }
  IN IF text = <<>> THEN <<None, NoneStr>>
     ELSE IF starts # {}
     THEN LET i == MinOf(starts)
              m == Greediest(PackAt(text, i))
          IN <<Num(DigitsValue(text, i, m[1])), "ft">>
     ELSE IF \E i \in 1 .. Len(text) : PerFootAt(text, i)
     THEN <<Num(1), "ft_each">>
     ELSE <<None, NoneStr>>

\* ------------------------------------------------------ gauge selection

\* ohms per 1000 ft, in units of 1e-4 ohm
COPPER_OHMS_PER_KFT ==
  (14 :> 25250) @@ (12 :> 15880) @@ (10 :> 9990) @@ (8 :> 6282) @@ (6 :> 3951)
  @@ (4 :> 2485) @@ (3 :> 1970) @@ (2 :> 1563) @@ (1 :> 1239) @@ (0 :> 983)
  @@ (-1 :> 779) @@ (-2 :> 618) @@ (-3 :> 490)

AL_OHMS_PER_KFT ==
  (12 :> 25200) @@ (10 :> 15880) @@ (8 :> 9990) @@ (6 :> 6282) @@ (4 :> 3951)
  @@ (3 :> 3133) @@ (2 :> 2485) @@ (1 :> 1970) @@ (0 :> 1563) @@ (-1 :> 1239)
  @@ (-2 :> 983) @@ (-3 :> 779)

COPPER_AMPACITY_75C ==
  (14 :> 20) @@ (12 :> 25) @@ (10 :> 35) @@ (8 :> 50) @@ (6 :> 65) @@ (4 :> 85)
  @@ (3 :> 100) @@ (2 :> 115) @@ (1 :> 130) @@ (0 :> 150) @@ (-1 :> 175)
  @@ (-2 :> 200) @@ (-3 :> 230)

\* f"{n}" of an integer
RECURSIVE NatText(_)
NatText(n) ==
  IF n < 10 THEN <<DigitChars[n + 1]>>
  ELSE NatText(n \div 10) \o <<DigitChars[(n % 10) + 1]>>

IntText(n) == IF n < 0 THEN <<"-">> \o NatText(-n) ELSE NatText(n)

awg_label(n) ==
  IF n >= 0 THEN IntText(n) \o <<" ","A","W","G">>
  ELSE IF n = -1 THEN <<"2","/","0"," ","A","W","G">>
  ELSE IF n = -2 THEN <<"3","/","0"," ","A","W","G">>
  ELSE IF n = -3 THEN <<"4","/","0"," ","A","W","G">>
  ELSE IntText(n)

MaxOf(S) == CHOOSE a \in S : \A b \in S : b <= a

\* sorted(keys, reverse = True): descending
RECURSIVE SortedDesc(_)
SortedDesc(S) ==
  IF S = {} THEN <<>> ELSE <<MaxOf(S)>> \o SortedDesc(S \ {MaxOf(S)})

OhmsTable(material) ==
  IF material = "aluminum" THEN AL_OHMS_PER_KFT ELSE COPPER_OHMS_PER_KFT

\* v_drop = 2 * amps * (table[size] / 1000) * one_way_length_ft, in 1/(2e7) V:
\* 2 * (amps2 / 2) * (r / 1e7) * (len_hf / 2) = amps2 * r * len_hf / 2e7
VDrop(table, size, amps2, len_hf) == amps2 * table[size] * len_hf

\* WithinDrop with the comparison turned round
WithinDrop_inverted(v, volts, md2) == v >= md2 * volts * 100000

\* (v_drop / volts) * 100.0 <= max_drop_pct, with max_drop_pct = md2 / 2:
\* v * 100 / (2e7 * volts) <= md2 / 2
WithinDrop(v, volts, md2) == v <= md2 * volts * 100000

\* suggest_awg searching from the thickest wire: sizes sorted ascending
suggest_awg_thickest_first(material, amps2, volts, len_hf, md2) ==
  LET table == IF material = "aluminum" THEN AL_OHMS_PER_KFT ELSE COPPER_OHMS_PER_KFT
      fits == { k \in DOMAIN table :
                  amps2 * table[k] * len_hf <= md2 * volts * 100000 }
      size == IF fits # {} THEN MinOf(fits) ELSE MaxOf(DOMAIN table)
  IN <<size, amps2 * table[size] * len_hf>>

\* Returns <<size, v_drop>>
suggest_awg(material, amps2, volts, len_hf, md2) ==
  LET table == OhmsTable(material)
      sizes == SortedDesc(DOMAIN table)
      ok == { k \in 1 .. Len(sizes) :
                WithinDrop(VDrop(table, sizes[k], amps2, len_hf), volts, md2) }
  IN IF ok # {}
     THEN LET size == sizes[MinOf(ok)]
          IN <<size, VDrop(table, size, amps2, len_hf)>>
     ELSE <<sizes[Len(sizes)], VDrop(table, sizes[Len(sizes)], amps2, len_hf)>>

\* ------------------------------------------------------- page extraction

\* fetch_html raised (transport error, timeout or raise_for_status)
FetchFailed == [error |-> "RequestException"]

\* x in text (substring)
Contains(text, x) == \E i \in 1 .. Len(text) : LitAt(text, i, x)

\* first position from from on whose character is in S, or Len(text) + 1
RECURSIVE FirstOf(_, _, _)
FirstOf(text, from, S) ==
  IF from > Len(text) \/ text[from] \in S THEN from
  ELSE FirstOf(text, from + 1, S)

\* urlparse(url).hostname or "": the text between "//" and the next of / ? # :
HostOf(u) ==
  LET at == { i \in 1 .. Len(u) : LitAt(u, i, <<"/","/">>) }
  IN IF at = {} THEN <<>>
     ELSE LET b == MinOf(at) + 2
          IN SubSeq(u, b, FirstOf(u, b, {"/", "?", "#", ":"}) - 1)

\* sep.join(parts)
RECURSIVE Join(_, _)
Join(parts, sep) ==
  IF parts = <<>> THEN <<>>
  ELSE IF Len(parts) = 1 THEN parts[1]
  ELSE parts[1] \o sep \o Join(Tail(parts), sep)

\* the detection fields of a scraped dict, from the text they are parsed from
Detected(text) ==
  [detected_awg |-> parse_awg(text),
   material |-> detect_material(text),
   pack_length_ft |-> parse_pack_length(text)[1],
   pack_unit |-> parse_pack_length(text)[2]]

\* features[:50]
First50(q) == SubSeq(q, 1, IF Len(q) < 50 THEN Len(q) ELSE 50)

\* A fetched document: short (text of div.short-description, <<>> when absent),
\* items (text of each li), spec_section (text of the block enclosing the
\* "product specification" label, <<>> when absent), body (text of the page).
\* Of the returned dict only the keys read later are kept.
\* combined_text = " ".join([short_description, features_text, specs_block])
ces_specific_scrape(doc) ==
  Detected(Join(<<normalize_space(doc.short),
                  Join(First50([i \in DOMAIN doc.items |-> normalize_space(doc.items[i])]),
                       <<" ","|"," ">>),
                  normalize_space(doc.spec_section)>>,
                <<" ">>))

generic_scrape(doc) == Detected(normalize_space(doc.body))

\* data["url"] = url
WithUrl(data, u) ==
  [url |-> u, detected_awg |-> data.detected_awg, material |-> data.material,
   pack_length_ft |-> data.pack_length_ft, pack_unit |-> data.pack_unit]

extract_specs(u, doc) ==
  WithUrl(IF Contains(HostOf(u), <<"c","i","t","y","e","l","e","c","t","r","i","c","s","u","p","p","l","y",".","c","o","m">>)
          THEN ces_specific_scrape(doc)
          ELSE generic_scrape(doc),
          u)

\* ------------------------------------------------------------ the script

\* "Parsed product specs": the value of specs after the block; pg is what the
\* fetch of the URL yields (a document, or FetchFailed for any exception)
ParsedSpecs(text, u, pg) ==
  IF Strip(text) # <<>>
  THEN WithUrl(Detected(text), <<"(","m","a","n","u","a","l"," ","i","n","p","u","t",")">>)
  ELSE IF Strip(u) # <<>>
  THEN IF pg = FetchFailed THEN [url |-> u] ELSE extract_specs(u, pg)
  ELSE <<>>

\* The "Electrical assumptions" widgets are created inside the elif url.strip()
\* branch: only then are volts, amps, max_drop and material_override bound.
ElectricalBound(text, u) == Strip(text) = <<>> /\ Strip(u) # <<>>

\* dict.get
Get(d, key, default) == IF key \in DOMAIN d THEN d[key] ELSE default

\* units of total footage (1/200 ft) per foot
PerFt == 2 * 100

\* Series.fillna(0).astype(float)
FillNa(c) == IF IsNum(c) THEN Val(c) ELSE 0

\* float(x or 0): None and 0 are falsy, NaN is truthy and stays NaN
OrZero(c) == IF c = None \/ c = Num(0) THEN Num(0) ELSE c

RECURSIVE SumSeq(_)
SumSeq(q) == IF q = <<>> THEN 0 ELSE Head(q) + SumSeq(Tail(q))

run_lengths(df) == [i \in DOMAIN df |-> FillNa(df[i].length)]

effective_runs(df, round_trip) ==
  [i \in DOMAIN df |-> IF round_trip THEN run_lengths(df)[i] * 2 ELSE run_lengths(df)[i]]

\* total_slack = terminations * (slack_per_termination + vertical_allowance)
TotalSlack(t, slack, vertical) == t * (slack + vertical)

\* TotalWithWaste adding the percentage as feet instead of scaling by it
TotalWithWaste_additive(base_total, waste) == base_total * 100 + waste * PerFt

\* total_with_waste = base_total * (1 + waste_pct / 100.0), in 1/200 ft
TotalWithWaste(base_total, waste) == base_total * (100 + waste)

\* round(a / b) to the nearest integer, ties to even
RoundDiv(a, b) ==
  LET q == a \div b
      r == a % b
  IN IF 2 * r < b THEN q
     ELSE IF 2 * r > b THEN q + 1
     ELSE IF q % 2 = 0 THEN q ELSE q + 1

\* one row of the per-run voltage drop table; vdrop is in hundredths of a
\* volt and pct in hundredths of a percent (round(_, 2))
VdropRow(row, material, a2, v, md2) ==
  LET one_way == OrZero(row.length)
      invoke == a2 > 0 /\ v > 0 /\ IsNum(one_way) /\ Val(one_way) > 0
      sv == suggest_awg(material, a2, v, Val(one_way), md2)
  IN [label |-> row.label,
      one_way |-> one_way,
      size_label |-> IF invoke THEN awg_label(sv[1]) ELSE <<>>,
      vdrop |-> IF invoke THEN Num(RoundDiv(sv[2], 200000)) ELSE <<>>,
      pct |-> IF invoke THEN Num(RoundDiv(sv[2], 2000 * v)) ELSE <<>>]

\* the messages of the ampacity sanity check
AmpacitySanity(detected_awg, material, a2) ==
  IF detected_awg = None THEN {}
  ELSE IF material = "copper" /\ Val(detected_awg) \in DOMAIN COPPER_AMPACITY_75C
  THEN IF a2 > 2 * COPPER_AMPACITY_75C[Val(detected_awg)]
       THEN {"ampacity_undersized"} ELSE {"ampacity_quick_check"}
  ELSE {"ampacity_copper_only"}

\* ------------------------------------------------------------ packaging

ValueError == <<"ValueError">>

\* str.split(","): the pieces between commas
RECURSIVE Split(_)
Split(text) ==
  LET c == FirstOf(text, 1, {","})
  IN IF c > Len(text) THEN <<text>>
     ELSE <<SubSeq(text, 1, c - 1)>> \o Split(SubSeq(text, c + 1, Len(text)))

\* int(x) of a stripped token: an optional sign and decimal digits
\* (digit-group underscores are not modelled)
int(tok) ==
  LET signed == tok # <<>> /\ Head(tok) \in {"+", "-"}
      body == IF signed THEN Tail(tok) ELSE tok
  IN IF body # <<>> /\ DigitsAt(body, 1, Len(body))
     THEN Num((IF signed /\ Head(tok) = "-" THEN -1 ELSE 1) * DigitsValue(body, 1, Len(body)))
     ELSE ValueError

\* {int(x.strip()) for x in manual_pack.split(",") if x.strip()}
OverrideEntries(text) ==
  LET parts == Split(text)
  IN { int(Strip(parts[i])) : i \in { i \in DOMAIN parts : Strip(parts[i]) # <<>> } }

\* the packs list and whether the override failed to parse
Packs(text, detected_pack, detected_pack_unit) ==
  IF Strip(text) # <<>>
  THEN IF ValueError \in OverrideEntries(text)
       THEN [packs |-> <<>>, error |-> TRUE]
       ELSE [packs |-> SortedDesc({ Val(e) : e \in OverrideEntries(text) }), error |-> FALSE]
  ELSE IF detected_pack # None /\ detected_pack # Num(0) /\ detected_pack_unit = "ft"
  THEN [packs |-> <<Val(detected_pack)>>, error |-> FALSE]
  ELSE [packs |-> <<>>, error |-> FALSE]

\* a // b of floats: the floor of the quotient, b # 0
FloorDiv(a, b) == IF b > 0 THEN a \div b ELSE (-a) \div (-b)

\* the greedy loop over packs[k ..]; remaining is in 1/200 ft
RECURSIVE GreedyLoop(_, _, _, _)
GreedyLoop(pack_list, k, remaining, plan) ==
  IF k > Len(pack_list) THEN [plan |-> plan, remaining |-> remaining]
  ELSE LET p == pack_list[k]
           count == FloorDiv(remaining, p * PerFt)
       IN GreedyLoop(pack_list, k + 1, remaining - count * p * PerFt,
                     Append(plan, <<p, count>>))

\* PurchasePlan without the extra pack for the remainder
PurchasePlan_no_extra_pack(total, pack_list) ==
  GreedyLoop(pack_list, 1, total, <<>>).plan

\* PurchasePlan adding the extra pack to the first (largest) size
PurchasePlan_extra_largest(total, pack_list) ==
  LET g == GreedyLoop(pack_list, 1, total, <<>>)
  IN IF g.remaining > 0
     THEN [g.plan EXCEPT ![1] = <<@[1], @[2] + 1>>]
     ELSE g.plan

\* purchase_plan: pairs <<pack length, quantity>>, one more of the smallest
\* pack when a remainder is left
PurchasePlan(total, pack_list) ==
  LET g == GreedyLoop(pack_list, 1, total, <<>>)
  IN IF g.remaining > 0
     THEN [g.plan EXCEPT ![Len(pack_list)] = <<@[1], @[2] + 1>>]
     ELSE g.plan

\* plan_df[plan_df["Quantity"] > 0]
RECURSIVE PositiveRows(_)
PositiveRows(plan) ==
  IF plan = <<>> THEN <<>>
  ELSE IF Head(plan)[2] > 0 THEN <<Head(plan)>> \o PositiveRows(Tail(plan))
  ELSE PositiveRows(Tail(plan))

\* ---------------------------------------------------------------- state

VARIABLES
  \* widgets
  manual_specs_text, url, use_round_trip, conductor_count, manual_pack, runs_df,
  terminations, slack_per_termination, vertical_allowance, waste_pct,
  \* widgets of the "Electrical assumptions" block; None / NoneStr while the
  \* block has not run and the names are unbound
  volts, amps, max_drop, material_override,
  \* what the product URL serves: a document or FetchFailed
  page,
  \* script variables of the last run
  specs, messages,
  \* what the last Calculate pass produced; status is "idle" (no pass shown),
  \* "done", or the exception that ended the pass
  status, sum_runs, total_slack, total_cable_feet, total_conductor_feet, mat,
  vdrop_rows, packs, purchase_plan, plan_df, effective_length_used,
  \* direct calls of suggest_awg: the arguments, the result, the call before
  sel_args, sel_ret, sel_prev

widgets == <<manual_specs_text, url, use_round_trip, conductor_count, manual_pack,
             runs_df, terminations, slack_per_termination, vertical_allowance, waste_pct>>
electrical == <<volts, amps, max_drop, material_override>>
results == <<status, sum_runs, total_slack, total_cable_feet, total_conductor_feet, mat,
             vdrop_rows, packs, purchase_plan, plan_df, effective_length_used>>
selector == <<sel_args, sel_ret, sel_prev>>
vars == <<widgets, electrical, page, specs, messages, results, selector>>

\* ------------------------------------------------------- input domains

MaxRuns == 2

T_blank == <<>>
T_spaces == <<" "," ">>
T_2_0 == <<"2","/","0"," ","A","W","G"," ","c","o","p","p","e","r">>
T_3_0 == <<"T","H","H","N"," ","3","/","0"," ","a","w","g">>
T_4_0 == <<"4","/","0"," ","A","W","G"," ","a","l","u","m","i","n","u","m"," ","5","0","0"," ","f","t">>
T_12 == <<"#","1","2"," ","A","W","G"," ","C","U"," ","2","5","0","f","t">>
T_kcmil == <<"2","5","0"," ","k","c","m","i","l"," ","s","o","l","d"," ","b","y"," "," ","f","o","o","t">>

U_ces == <<"h","t","t","p","s",":","/","/","w","w","w",".","c","i","t","y","e","l","e","c","t","r","i","c","s","u","p","p","l","y",".","c","o","m","/","w">>
U_other == <<"h","t","t","p",":","/","/","s","h","o","p",".","t","e","s","t","/","w">>

D_cord == [short |-> <<"S","O","O","W"," "," ","p","o","r","t","a","b","l","e"," ","c","o","r","d"," ","6"," ","A","W","G">>,
           items |-> <<<<"C","o","p","p","e","r"," ","c","o","n","d","u","c","t","o","r","s">>, <<" ","2","5","0"," ","f","t"," ","r","e","e","l"," ">>>>,
           spec_section |-> <<"P","r","o","d","u","c","t"," ","S","p","e","c","i","f","i","c","a","t","i","o","n"," ","6","0","0","V">>,
           body |-> <<"S","e","r","v","i","c","e"," ","w","i","r","e"," ","2","/","0"," ","A","W","G"," "," ","a","l","u","m","i","n","u","m"," ","1","0","0","0"," ","f","e","e","t">>]
D_4_0 == [short |-> <<>>, items |-> <<>>, spec_section |-> <<>>,
          body |-> <<"B","u","i","l","d","i","n","g"," ","w","i","r","e"," ","4","/","0"," ","A","W","G"," ","c","o","p","p","e","r"," ","p","e","r"," ","f","o","o","t">>]
D_plain == [short |-> <<>>, items |-> <<>>, spec_section |-> <<>>,
            body |-> <<"W","e","l","c","o","m","e">>]

P_blank == <<>>
P_250_500 == <<"2","5","0",",","5","0","0">>
P_500_300 == <<"5","0","0",","," ","3","0","0">>
P_100 == <<"1","0","0">>
P_zero == <<"0">>
P_250_zero == <<"2","5","0",",","0">>
P_negative == <<"-","2","5","0">>
P_word == <<"2","5","0",",","a","b","c">>

\* default_rows: Run 1..3 of 50, 75 and 100 ft
default_rows ==
  <<[label |-> "Run 1", length |-> Num(100)],
    [label |-> "Run 2", length |-> Num(150)],
    [label |-> "Run 3", length |-> Num(200)]>>

RunLabels == <<"Run 1", "Run 2", "Run 3", "Run 4">>

\* run tables of up to n rows whose length cells are drawn from cells; a
\* blank cell is None or NaN, as the frame stores it
RunTables(cells, n) ==
  UNION { { [i \in 1 .. k |-> [label |-> RunLabels[i], length |-> f[i]]] :
            f \in [1 .. k -> cells] } : k \in 0 .. n }

VoltsChoices == {12, 120}
AmpsChoices == {0, 30}
MaxDropChoices == {2, 6}
MaterialChoices == {"auto-detect", "copper", "aluminum"}

\* ---------------------------------------------------------------- script

ManualTexts == {T_blank, T_spaces, T_2_0, T_3_0, T_4_0, T_12, T_kcmil}
Urls == {T_blank, T_spaces, U_ces, U_other}
Pages == {FetchFailed, D_cord, D_4_0, D_plain}

\* specs as the script computes it, tabulated once over the inputs above
specs_of == [t \in ManualTexts, u \in Urls, pg \in Pages |-> ParsedSpecs(t, u, pg)]

ScriptMessages(text, u, pg) ==
  IF Strip(text) # <<>> THEN {"parsed_from_pasted"}
  ELSE IF Strip(u) # <<>> /\ pg = FetchFailed THEN {"fetch_error"}
  ELSE {}

NoResults ==
  /\ status' = "idle"
  /\ sum_runs' = 0
  /\ total_slack' = 0
  /\ total_cable_feet' = 0
  /\ total_conductor_feet' = 0
  /\ mat' = NoneStr
  /\ vdrop_rows' = <<>>
  /\ packs' = <<>>
  /\ purchase_plan' = <<>>
  /\ plan_df' = <<>>
  /\ effective_length_used' = <<>>

\* the form as the user has filled it in and the script has last shown it:
\* the electrical widgets hold their defaults where the block runs
FormInit(texts, urls, pages, overrides, tables, trips, counts, terms, wastes) ==
  /\ manual_specs_text \in texts
  /\ url \in urls
  /\ page \in pages
  /\ manual_pack \in overrides
  /\ runs_df \in tables
  /\ use_round_trip \in trips
  /\ conductor_count \in counts
  /\ terminations \in terms
  /\ slack_per_termination = 4
  /\ vertical_allowance = 0
  /\ waste_pct \in wastes
  /\ volts = IF ElectricalBound(manual_specs_text, url) THEN Num(120) ELSE None
  /\ amps = IF ElectricalBound(manual_specs_text, url) THEN Num(30) ELSE None
  /\ max_drop = IF ElectricalBound(manual_specs_text, url) THEN Num(6) ELSE None
  /\ material_override =
       IF ElectricalBound(manual_specs_text, url) THEN "auto-detect" ELSE NoneStr
  /\ specs = specs_of[manual_specs_text, url, page]
  /\ messages = ScriptMessages(manual_specs_text, url, page)
  /\ status = "idle"
  /\ sum_runs = 0
  /\ total_slack = 0
  /\ total_cable_feet = 0
  /\ total_conductor_feet = 0
  /\ mat = NoneStr
  /\ vdrop_rows = <<>>
  /\ packs = <<>>
  /\ purchase_plan = <<>>
  /\ plan_df = <<>>
  /\ effective_length_used = <<>>
  /\ sel_args = <<>>
  /\ sel_ret = <<>>
  /\ sel_prev = <<>>

\* a script run without the button: the specs are parsed again, no results
Rerun ==
  /\ specs' = specs_of[manual_specs_text, url, page]
  /\ messages' = ScriptMessages(manual_specs_text, url, page)
  /\ NoResults
  /\ UNCHANGED <<widgets, page, selector>>

SetVolts(v) ==
  /\ volts # None
  /\ volts' = Num(v)
  /\ UNCHANGED <<amps, max_drop, material_override>>
  /\ Rerun

SetAmps(a) ==
  /\ amps # None
  /\ amps' = Num(a)
  /\ UNCHANGED <<volts, max_drop, material_override>>
  /\ Rerun

SetMaxDrop(m) ==
  /\ max_drop # None
  /\ max_drop' = Num(m)
  /\ UNCHANGED <<volts, amps, material_override>>
  /\ Rerun

SetMaterial(m) ==
  /\ material_override # NoneStr
  /\ material_override' = m
  /\ UNCHANGED <<volts, amps, max_drop>>
  /\ Rerun

\* ------------------------------------------------------ the Calculate pass

\* mat: the override unless "auto-detect", else detected_material or "copper"
AssumedMaterial(override, detected_material) ==
  IF override # "auto-detect" THEN override
  ELSE IF detected_material # NoneStr THEN detected_material
  ELSE "copper"

\* the messages of the packaging step
PackagingMessages(pk, detected_pack_unit) ==
  (IF pk.error THEN {"pack_parse_error"} ELSE {})
  \cup (IF pk.packs # <<>> THEN {"plan_success"}
        ELSE IF detected_pack_unit = "ft_each" THEN {"sold_by_foot"}
        ELSE {"packaging_not_detected"})

\* the packaging step and the export, given the packs list pk; the pass ends
\* with ZeroDivisionError at remaining // p for p = 0
PackagingAndExport(pk, detected_pack_unit, shown) ==
  /\ packs' = pk.packs
  /\ IF \E k \in DOMAIN pk.packs : pk.packs[k] = 0
     THEN /\ status' = "ZeroDivisionError"
          /\ messages' = shown \cup (IF pk.error THEN {"pack_parse_error"} ELSE {})
          /\ purchase_plan' = <<>>
          /\ plan_df' = <<>>
          /\ effective_length_used' = <<>>
     ELSE /\ status' = "done"
          /\ messages' = shown \cup PackagingMessages(pk, detected_pack_unit)
          /\ purchase_plan' =
               IF pk.packs # <<>> THEN PurchasePlan(total_cable_feet', pk.packs) ELSE <<>>
          /\ plan_df' = PositiveRows(purchase_plan')
          /\ effective_length_used' = effective_runs(runs_df, use_round_trip)

\* if st.button("Calculate Wire Needs"): the script runs with the button set.
\* The pass ends with NameError where it first reads an unbound electrical
\* name (material_override).
Calculate ==
  /\ specs' = specs_of[manual_specs_text, url, page]
  /\ sum_runs' = SumSeq(effective_runs(runs_df, use_round_trip))
  /\ total_slack' = TotalSlack(terminations, slack_per_termination, vertical_allowance)
  /\ total_cable_feet' = TotalWithWaste(sum_runs' + total_slack', waste_pct)
  /\ total_conductor_feet' = total_cable_feet' * conductor_count
  /\ IF material_override = NoneStr
     THEN /\ status' = "NameError"
          /\ messages' = ScriptMessages(manual_specs_text, url, page)
          /\ mat' = NoneStr
          /\ vdrop_rows' = <<>>
          /\ packs' = <<>>
          /\ purchase_plan' = <<>>
          /\ plan_df' = <<>>
          /\ effective_length_used' = <<>>
     ELSE /\ mat' = AssumedMaterial(material_override, Get(specs', "material", NoneStr))
          /\ vdrop_rows' = [i \in DOMAIN runs_df |->
               VdropRow(runs_df[i], mat', Val(amps), Val(volts), Val(max_drop))]
          /\ PackagingAndExport(
               Packs(manual_pack, Get(specs', "pack_length_ft", None),
                     Get(specs', "pack_unit", NoneStr)),
               Get(specs', "pack_unit", NoneStr),
               ScriptMessages(manual_specs_text, url, page)
                 \cup AmpacitySanity(Get(specs', "detected_awg", None), mat', Val(amps)))
  /\ UNCHANGED <<widgets, electrical, page, selector>>

\* ------------------------------------------------------- specifications

Next ==
  \/ \E v \in VoltsChoices : SetVolts(v)
  \/ \E a \in AmpsChoices : SetAmps(a)
  \/ \E m \in MaxDropChoices : SetMaxDrop(m)
  \/ \E m \in MaterialChoices : SetMaterial(m)
  \/ Calculate

\* every input situation: pasted specs, URL with and without a fetched page,
\* neither
Init ==
  FormInit(ManualTexts, Urls, Pages,
           {P_blank, P_250_500},
           {default_rows}, {TRUE}, {1}, {10}, {10})

Spec == Init /\ [][Next]_vars

\* the run table, the round-trip flag, the conductor count and the slack
\* parameters vary; the URL is given and no specs are pasted
InitRuns ==
  FormInit({T_blank}, {U_other}, {D_cord}, {P_blank},
           RunTables({None, NaN, Num(100), Num(800)}, MaxRuns),
           BOOLEAN, {1, 3}, {0, 10}, {10})

SpecRuns == InitRuns /\ [][Next]_vars

\* the packaging override and the total footage vary
InitPackaging ==
  FormInit({T_blank}, {U_other}, {FetchFailed, D_cord},
           {P_blank, P_250_500, P_500_300, P_100, P_zero, P_250_zero,
            P_negative, P_word},
           {default_rows} \cup RunTables({Num(800)}, MaxRuns),
           {TRUE}, {1}, {0, 10}, {0, 10})

SpecPackaging == InitPackaging /\ [][Next]_vars

\* ---------------------------------------------- suggest_awg called directly

MaxAmpSteps == 3
MaxLenSteps == 3

SelMaterials == {"copper", "aluminum", "silver"}
SelVolts == {12, 120, 240}
SelMaxDrop == {2, 6, 10}
\* 10 A steps and 100 ft steps
SelAmps == { 20 * k : k \in 1 .. MaxAmpSteps }
SelLengths == { 200 * k : k \in 1 .. MaxLenSteps }

SelCall(material, a2, v, len_hf, md2) ==
  /\ sel_args' = [material |-> material, amps |-> a2, volts |-> v,
                  length |-> len_hf, max_drop |-> md2]
  /\ sel_ret' = suggest_awg(material, a2, v, len_hf, md2)

\* a first call, on any circuit
Suggest(material, a2, v, len_hf, md2) ==
  /\ sel_args = <<>>
  /\ SelCall(material, a2, v, len_hf, md2)
  /\ sel_prev' = <<>>
  /\ UNCHANGED <<widgets, electrical, page, specs, messages, results>>

\* a further call for the same material, voltage and bound with another load
SuggestAgain(a2, len_hf) ==
  /\ sel_args # <<>>
  /\ SelCall(sel_args.material, a2, sel_args.volts, len_hf, sel_args.max_drop)
  /\ sel_prev' = [args |-> sel_args, ret |-> sel_ret]
  /\ UNCHANGED <<widgets, electrical, page, specs, messages, results>>

InitSelector ==
  FormInit({T_blank}, {U_other}, {D_plain}, {P_blank}, {default_rows},
           {TRUE}, {1}, {10}, {10})

NextSelector ==
  \/ \E m \in SelMaterials, a \in SelAmps, v \in SelVolts, l \in SelLengths,
        d \in SelMaxDrop : Suggest(m, a, v, l, d)
  \/ \E a \in SelAmps, l \in SelLengths : SuggestAgain(a, l)

SpecSelector == InitSelector /\ [][NextSelector]_vars

\* ================================================================ claims

\* C1: a Calculate trigger runs the calculation pass to completion in every
\* input situation (pasted specs, URL with or without a fetched page, neither),
\* and every electrical assumption the pass reads has a value.
C1_CalculateCompletes ==
  status # "idle" =>
    /\ status = "done"
    /\ volts # None
    /\ amps # None
    /\ max_drop # None
    /\ material_override # NoneStr

\* the text mentions "<d>/0 AWG"
C9_Mentions(text, d) == Contains(text, <<d, "/", "0", " ", "A", "W", "G">>)

\* C9: for pasted text whose gauge mention is "2/0 AWG", "3/0 AWG" or "4/0 AWG"
\* the detected gauge is the size code -1, -2 or -3 respectively.
C9_SlashGaugeCodes ==
  \A k \in 1 .. 3 :
    (Strip(manual_specs_text) # <<>> /\ C9_Mentions(manual_specs_text, DigitChars[k + 2]))
      => specs.detected_awg = Num(-k)

\* the one-way lengths of the table added up, a blank cell counting 0
RECURSIVE C7_LengthSum(_)
C7_LengthSum(df) ==
  IF df = <<>> THEN 0
  ELSE (IF IsNum(Head(df).length) THEN Val(Head(df).length) ELSE 0) + C7_LengthSum(Tail(df))

\* C7: the pass computes sum_runs as the sum of the one-way lengths, doubled
\* when round-trip is set; total_slack = terminations * (slack + vertical);
\* total_cable_feet = (sum_runs + total_slack) * (1 + waste_pct / 100);
\* total_conductor_feet = total_cable_feet * conductor_count; and the footage
\* the packaging step plans for is total_cable_feet, whatever conductor_count is.
C7_Aggregates ==
  status # "idle" =>
    /\ sum_runs = (IF use_round_trip THEN 2 ELSE 1) * C7_LengthSum(runs_df)
    /\ total_slack = terminations * (slack_per_termination + vertical_allowance)
    /\ total_cable_feet = (sum_runs + total_slack) * (100 + waste_pct)
    /\ total_conductor_feet = total_cable_feet * conductor_count
    /\ (status = "done" /\ packs # <<>>) =>
         purchase_plan = PurchasePlan((sum_runs + total_slack) * (100 + waste_pct), packs)

C7_Witness ==
  /\ status = "done"
  /\ use_round_trip
  /\ conductor_count = 3
  /\ Len(runs_df) = 2
  /\ sum_runs = 2 * (100 + 800)
  /\ terminations = 10
  /\ waste_pct = 10
  /\ total_conductor_feet = 3 * total_cable_feet
  /\ purchase_plan # <<>>

\* C8: a blank length cell is treated as 0 wherever the pass uses it: it adds 0
\* to sum_runs, its per-run row carries a one-way length of 0 with blank gauge
\* and drop fields, its effective length in the export is 0, and the pass
\* does not fail.
C8_BlankLengthIsZero ==
  status # "idle" =>
    /\ status = "done"
    /\ sum_runs = (IF use_round_trip THEN 2 ELSE 1) * C7_LengthSum(runs_df)
    /\ \A i \in DOMAIN runs_df :
         ~IsNum(runs_df[i].length) =>
           /\ vdrop_rows[i].one_way = Num(0)
           /\ vdrop_rows[i].size_label = <<>>
           /\ vdrop_rows[i].vdrop = <<>>
           /\ vdrop_rows[i].pct = <<>>
           /\ effective_length_used[i] = 0

\* the selector is invoked for run i and no size of the material's table
\* meets the max-drop bound
C5_Degraded(i) ==
  LET len == runs_df[i].length
      R == IF mat = "aluminum" THEN AL_OHMS_PER_KFT ELSE COPPER_OHMS_PER_KFT
  IN /\ status = "done"
     /\ IsNum(len) /\ Val(len) > 0 /\ Val(amps) > 0 /\ Val(volts) > 0
     /\ \A k \in DOMAIN R :
          Val(amps) * R[k] * Val(len) > Val(max_drop) * Val(volts) * 100000

\* C5: when no size code meets the max-drop bound, the per-run result is marked
\* as degraded ("exceeds max drop even at largest listed size") by something
\* other than its numeric drop values: its gauge field is not the plain label
\* of an accepted 4/0 suggestion, or a message says so.
C5_DegradedRowIsMarked ==
  \A i \in DOMAIN vdrop_rows :
    C5_Degraded(i) =>
      \/ vdrop_rows[i].size_label # awg_label(-3)
      \/ "exceeds_max_drop" \in messages

\* the pack list is a non-empty list of positive pack sizes
PositivePacks(pack_list) ==
  pack_list # <<>> /\ \A k \in DOMAIN pack_list : pack_list[k] > 0

\* the footage a plan buys, in 1/200 ft
RECURSIVE Bought(_)
Bought(plan) ==
  IF plan = <<>> THEN 0
  ELSE Head(plan)[1] * Head(plan)[2] * PerFt + Bought(Tail(plan))

\* C3: for a required total footage >= 0 and a non-empty set of positive pack
\* sizes the purchase plan never under-covers: every quantity is >= 0 and the
\* plan (also with its zero rows dropped) buys at least the required footage.
C3_PlanCovers ==
  (status = "done" /\ PositivePacks(packs)) =>
    /\ Len(purchase_plan) = Len(packs)
    /\ \A k \in DOMAIN purchase_plan :
         purchase_plan[k][1] = packs[k] /\ purchase_plan[k][2] >= 0
    /\ Bought(purchase_plan) >= total_cable_feet
    /\ Bought(plan_df) >= total_cable_feet

C3_Witness ==
  /\ status = "done"
  /\ Len(packs) = 2
  /\ PositivePacks(packs)
  /\ total_cable_feet > 0
  /\ purchase_plan[1][2] >= 1
  /\ purchase_plan[2][2] >= 1
  /\ Bought(purchase_plan) > total_cable_feet

\* the entries of an override text: its non-blank comma-separated pieces
C4_Entries(text) ==
  { Strip(Split(text)[i]) : i \in { i \in DOMAIN Split(text) : Strip(Split(text)[i]) # <<>> } }

\* a decimal numeral greater than 0
C4_PositiveInteger(tok) ==
  /\ tok # <<>>
  /\ \A k \in DOMAIN tok : tok[k] \in Digits
  /\ \E k \in DOMAIN tok : tok[k] # "0"

\* the text is non-blank and is not a comma-separated set of positive integers
C4_Malformed(text) ==
  /\ Strip(text) # <<>>
  /\ \/ C4_Entries(text) = {}
     \/ \E e \in C4_Entries(text) : ~C4_PositiveInteger(e)

\* C4: whenever the packaging override is non-blank and is not a set of
\* positive integers, the planner does not run (no purchase plan), a parse
\* error is reported, and the pass continues to the summary.
C4_MalformedOverrideSkipsPlanner ==
  (status # "idle" /\ C4_Malformed(manual_pack)) =>
    /\ status = "done"
    /\ purchase_plan = <<>>
    /\ "pack_parse_error" \in messages

\* some assignment of quantities 0 .. most to the pack sizes covers total and
\* buys fewer feet than bought
CheaperCover(pack_list, total, bought, most) ==
  \E q \in [DOMAIN pack_list -> 0 .. most] :
    LET alt == [k \in DOMAIN pack_list |-> <<pack_list[k], q[k]>>]
    IN Bought(alt) >= total /\ Bought(alt) < bought

\* no covering assignment needs more of a pack than the plan's footage holds
MostPacks(pack_list, bought) == bought \div (pack_list[Len(pack_list)] * PerFt)

\* C6 as stated: for every set of positive pack sizes the plan covers the
\* requirement with minimal waste: no other covering assignment of quantities
\* to the same pack sizes buys fewer total feet.
C6_MinimalWaste ==
  (status = "done" /\ PositivePacks(packs)) =>
    ~CheaperCover(packs, total_cable_feet, Bought(purchase_plan),
                  MostPacks(packs, Bought(purchase_plan)))

\* each pack size is a multiple of the next smaller one
DivisibilityChain(pack_list) ==
  \A k \in 1 .. Len(pack_list) - 1 : pack_list[k] % pack_list[k + 1] = 0

\* C6 amended: the plan covers the requirement with waste less than the
\* smallest pack size; it buys the fewest feet of all covering assignments
\* when each pack size is a multiple of the next smaller one (a single pack
\* size included), not for every set of pack sizes.
C6_WasteBelowSmallestPack ==
  (status = "done" /\ PositivePacks(packs)) =>
    /\ Bought(purchase_plan) >= total_cable_feet
    /\ Bought(purchase_plan) - total_cable_feet < packs[Len(packs)] * PerFt
    /\ DivisibilityChain(packs) =>
         ~CheaperCover(packs, total_cable_feet, Bought(purchase_plan),
                       MostPacks(packs, Bought(purchase_plan)))

C6_Witness ==
  /\ status = "done"
  /\ packs = <<500, 250>>
  /\ purchase_plan[1][2] >= 1
  /\ purchase_plan[2][2] >= 1
  /\ Bought(purchase_plan) > total_cable_feet

\* the table suggest_awg is to use for a material
C2_Table(material) ==
  IF material = "aluminum" THEN AL_OHMS_PER_KFT ELSE COPPER_OHMS_PER_KFT

\* the size codes of table R whose drop percentage is within the bound
C2_Fits(R, a) ==
  { k \in DOMAIN R : a.amps * R[k] * a.length <= a.max_drop * a.volts * 100000 }

\* C2: suggest_awg returns (s, d) with d = 2 * amps * (R[s] / 1000) * length
\* for the material's table R (the copper table for any material other than
\* "aluminum"), s the largest size code whose drop percentage is within the
\* bound, and s = -3 when no size code is.
C2_SuggestAwgSelects ==
  sel_args # <<>> =>
    LET R == C2_Table(sel_args.material)
        s == sel_ret[1]
    IN /\ s \in DOMAIN R
       /\ sel_ret[2] = sel_args.amps * R[s] * sel_args.length
       /\ IF C2_Fits(R, sel_args) # {}
          THEN s \in C2_Fits(R, sel_args) /\ \A k \in C2_Fits(R, sel_args) : k <= s
          ELSE s = -3

C2_Witness ==
  /\ sel_args # <<>>
  /\ sel_args.material = "silver"
  /\ sel_ret[1] = 6
  /\ 8 \notin C2_Fits(COPPER_OHMS_PER_KFT, sel_args)
  /\ 4 \in C2_Fits(COPPER_OHMS_PER_KFT, sel_args)

\* resistance strictly decreases as the size code decreases
StrictlyDecreasing(R) == \A j, k \in DOMAIN R : j < k => R[j] < R[k]

\* C10: for a fixed material, voltage and max drop, a heavier or longer circuit
\* never gets a thinner suggested wire: amps1 <= amps2 and length1 <= length2
\* give size2 <= size1; each resistance table is strictly decreasing as the
\* size code decreases.
C10_MonotoneInLoad ==
  /\ StrictlyDecreasing(COPPER_OHMS_PER_KFT)
  /\ StrictlyDecreasing(AL_OHMS_PER_KFT)
  /\ sel_prev # <<>> =>
       /\ (sel_prev.args.amps <= sel_args.amps /\ sel_prev.args.length <= sel_args.length)
            => sel_ret[1] <= sel_prev.ret[1]
       /\ (sel_args.amps <= sel_prev.args.amps /\ sel_args.length <= sel_prev.args.length)
            => sel_prev.ret[1] <= sel_ret[1]

C10_Witness ==
  /\ sel_prev # <<>>
  /\ sel_prev.args.amps < sel_args.amps
  /\ sel_prev.args.length < sel_args.length
  /\ sel_ret[1] < sel_prev.ret[1]
  /\ sel_ret[1] > -3

====
